---- MODULE Spec2Model ----
(***************************************************************************)
(* A model of the Config store of CoderichLLC/nodejs-config (the variant   *)
(* with function placeholders, src/unnamed/part_002): the Definition Tree  *)
(* (#config), the Resolved Tree (#data), the Dictionary (#dictionary), the *)
(* function registry (#functions), and the operations construct, get, set, *)
(* merge and resolve, with the lodash get/set/merge and the flatten and    *)
(* unflatten helpers they call.                                            *)
(*                                                                         *)
(* JavaScript objects live in a heap, so that two references to one object *)
(* are told apart from two equal objects.  A string is the sequence of its *)
(* characters.  Within the bounds of the model: property names hold no     *)
(* '.', '[' or ']' and are not names JavaScript defines on strings and     *)
(* arrays (length, ...); strings hold no line break; numbers are written   *)
(* in canonical decimal; objects are plain objects or arrays, acyclic.     *)
(***************************************************************************)
EXTENDS Integers, Sequences, FiniteSets, TLC

(***************************************************************************)
(* Characters and strings                                                  *)
(***************************************************************************)
SelfKey == <<"s", "e", "l", "f">>
TextUndefined == <<"u", "n", "d", "e", "f", "i", "n", "e", "d">>
TextNull == <<"n", "u", "l", "l">>
TextTrue == <<"t", "r", "u", "e">>
TextFalse == <<"f", "a", "l", "s", "e">>
TextObject == <<"[", "o", "b", "j", "e", "c", "t", " ", "O", "b", "j", "e", "c", "t", "]">>
DigitChars == <<"0", "1", "2", "3", "4", "5", "6", "7", "8", "9">>
Sigils == {"$", "@"}
Quotes == {"'", "\""}

\* The text from position i to the end.
Tail2(s, i) == SubSeq(s, i, Len(s))

\* Position of the first c at or after position i, 0 when there is none.
IndexOfFrom(s, c, i) ==
  LET First(at) == IF at = {} THEN 0 ELSE CHOOSE j \in at : \A k \in at : j <= k
  IN First({j \in i..Len(s) : s[j] = c})

\* String.prototype.split(sep) for a one-character separator.
RECURSIVE Split(_, _)
Split(s, sep) ==
  LET i == IndexOfFrom(s, sep, 1)
  IN IF i = 0 THEN <<s>>
     ELSE <<SubSeq(s, 1, i - 1)>> \o Split(Tail2(s, i + 1), sep)

\* Array.prototype.join(sep) on an array of strings.
RECURSIVE Join(_, _)
Join(parts, sep) ==
  IF Len(parts) = 0 THEN <<>>
  ELSE IF Len(parts) = 1 THEN parts[1]
  ELSE parts[1] \o sep \o Join(Tail(parts), sep)

\* String.prototype.trim() (the blank is the only white space of the model).
RECURSIVE TrimLeft(_)
TrimLeft(s) == IF Len(s) > 0 /\ s[1] = " " THEN TrimLeft(Tail(s)) ELSE s
RECURSIVE TrimRight(_)
TrimRight(s) ==
  IF Len(s) > 0 /\ s[Len(s)] = " " THEN TrimRight(SubSeq(s, 1, Len(s) - 1)) ELSE s
Trim(s) == TrimRight(TrimLeft(s))

\* key.replace(/:/g, '.')
ColonsToDots(s) == [i \in 1..Len(s) |-> IF s[i] = ":" THEN "." ELSE s[i]]

\* The decimal text of a natural number, and the number a decimal text denotes.
RECURSIVE NatText(_)
NatText(n) ==
  IF n < 10 THEN <<DigitChars[n + 1]>>
  ELSE NatText(n \div 10) \o <<DigitChars[(n % 10) + 1]>>
DigitOf(c) == (CHOOSE d \in 1..10 : DigitChars[d] = c) - 1
RECURSIVE TextNat(_)
TextNat(s) ==
  IF Len(s) = 0 THEN 0
  ELSE 10 * TextNat(SubSeq(s, 1, Len(s) - 1)) + DigitOf(s[Len(s)])
IsDigit(c) == \E d \in 1..10 : DigitChars[d] = c

\* lodash isIndex on a string key: /^(?:0|[1-9]\d*)$/.
IsIndex(k) ==
  /\ Len(k) > 0
  /\ \A i \in 1..Len(k) : IsDigit(k[i])
  /\ (k[1] = "0" => Len(k) = 1)

(***************************************************************************)
(* Values.  Every value is a record of the same three fields: its type t,  *)
(* the text v that String(value) gives for a primitive, and the heap       *)
(* address a of an object or array (0 for a primitive).                    *)
(***************************************************************************)
Undefined == [t |-> "undefined", v |-> TextUndefined, a |-> 0]
Null == [t |-> "null", v |-> TextNull, a |-> 0]
True == [t |-> "boolean", v |-> TextTrue, a |-> 0]
False == [t |-> "boolean", v |-> TextFalse, a |-> 0]
Num(n) == [t |-> "number", v |-> NatText(n), a |-> 0]
Str(s) == [t |-> "string", v |-> s, a |-> 0]
Ref(addr) == [t |-> "ref", v |-> <<>>, a |-> addr]

IsObject(x) == x.t = "ref"
IsNullish(x) == x.t \in {"undefined", "null"}
\* JavaScript truthiness (ToBoolean).
Truthy(x) ==
  ~ \/ IsNullish(x)
    \/ x = False
    \/ x.t = "number" /\ x.v = <<"0">>
    \/ x.t = "string" /\ x.v = <<>>

(***************************************************************************)
(* Heap objects: a plain object or an array, its own keys in the order     *)
(* Object.keys lists them, and their values.  An array holds a key for     *)
(* each index that was assigned; an index that never was is a hole.        *)
(***************************************************************************)
EmptyObject == [kind |-> "object", keys |-> <<>>, vals |-> <<>>]
EmptyArray == [kind |-> "array", keys |-> <<>>, vals |-> <<>>]

HasKey(o, k) == \E i \in 1..Len(o.keys) : o.keys[i] = k
KeyPos(o, k) == CHOOSE i \in 1..Len(o.keys) : o.keys[i] = k
\* object[key]
Prop(o, k) == IF HasKey(o, k) THEN o.vals[KeyPos(o, k)] ELSE Undefined

\* The number of own keys a new own key k is listed after: the keys that are
\* array indexes come first, in ascending order, and the other keys follow in
\* the order they were created.
InsertAt(keys, k) ==
  IF IsIndex(k)
  THEN Cardinality({i \in 1..Len(keys) :
                      IsIndex(keys[i]) /\ TextNat(keys[i]) < TextNat(k)})
  ELSE Len(keys)
\* The sequence s with e after its first p elements.
Insert(s, p, e) == SubSeq(s, 1, p) \o <<e>> \o SubSeq(s, p + 1, Len(s))

\* object[key] = value.  An assignment past the end of an array creates the
\* one key and leaves holes below it.
Assign(o, k, x) ==
  IF HasKey(o, k) THEN [o EXCEPT !.vals[KeyPos(o, k)] = x]
  ELSE [o EXCEPT !.keys = Insert(@, InsertAt(o.keys, k), k),
                 !.vals = Insert(@, InsertAt(o.keys, k), x)]

\* array.length: one more than the greatest index assigned, 0 when none was.
ArrayLength(o) ==
  LET Past(indexes) ==
        IF indexes = {} THEN 0
        ELSE 1 + CHOOSE n \in indexes : \A m \in indexes : m <= n
  IN Past({TextNat(o.keys[i]) : i \in {j \in 1..Len(o.keys) : IsIndex(o.keys[j])}})

\* The heap with a new object at its end; the new object's address.
Alloc(h, o) == Append(h, o)
NewAddr(h) == Len(h) + 1

(***************************************************************************)
(* lodash.get, lodash.set                                                  *)
(***************************************************************************)
\* lodash castPath/stringToPath on a string without brackets.
castPath(path) == Split(path, ".")

RECURSIVE baseGet(_, _, _, _)
baseGet(h, object, path, index) ==
  IF index > Len(path) THEN object
  ELSE IF ~IsObject(object) THEN Undefined
  ELSE baseGet(h, Prop(h[object.a], path[index]), path, index + 1)

\* get(object, path, defaultValue)
lodashGet(h, object, path, defaultValue) ==
  LET result == IF IsNullish(object) THEN Undefined
                ELSE baseGet(h, object, castPath(path), 1)
  IN IF result = Undefined THEN defaultValue ELSE result

\* lodash assignValue: assigns unless the own property already holds the value.
assignValue(h, addr, k, x) ==
  IF HasKey(h[addr], k) /\ Prop(h[addr], k) = x THEN h
  ELSE [h EXCEPT ![addr] = Assign(@, k, x)]

RECURSIVE baseSet(_, _, _, _, _)
baseSet(h, nested, path, index, x) ==
  IF index = Len(path) THEN assignValue(h, nested, path[index], x)
  ELSE
    LET objValue == Prop(h[nested], path[index])
    IN IF IsObject(objValue)
       THEN baseSet(h, objValue.a, path, index + 1, x)
       ELSE LET fresh == IF IsIndex(path[index + 1]) THEN EmptyArray ELSE EmptyObject
                h1 == Alloc(h, fresh)
                h2 == assignValue(h1, nested, path[index], Ref(NewAddr(h)))
            IN baseSet(h2, NewAddr(h), path, index + 1, x)

\* set(object, path, value), for an object in the heap.
lodashSet(h, addr, path, x) == baseSet(h, addr, castPath(path), 1, x)

(***************************************************************************)
(* lodash.merge                                                            *)
(***************************************************************************)
\* lodash assignMergeValue: undefined never overwrites an existing property.
assignMergeValue(h, addr, k, x) ==
  IF \/ x # Undefined /\ Prop(h[addr], k) # x
     \/ x = Undefined /\ ~HasKey(h[addr], k)
  THEN [h EXCEPT ![addr] = Assign(@, k, x)]
  ELSE h

\* lodash keysIn: every index below the length of an array, holes included,
\* then its other keys; the keys of a plain object.
keysIn(o) ==
  IF o.kind = "array"
  THEN [i \in 1..ArrayLength(o) |-> NatText(i - 1)]
       \o SelectSeq(o.keys, LAMBDA k : ~IsIndex(k))
  ELSE o.keys

\* lodash baseMerge/baseMergeDeep: the keys of source, in order, merged
\* into object.  A scalar of source is assigned; an array of source is merged
\* index by index into the array object holds at the key (into a new array
\* when it holds none); a plain object of source is merged into the object or
\* array that object holds at the key (into a new object when it holds none).
RECURSIVE baseMergeKeys(_, _, _, _, _)
baseMergeKeys(h, object, source, keys, i) ==
  IF i > Len(keys) THEN h
  ELSE
    LET key == keys[i]
        srcValue == Prop(h[source], key)
        objValue == Prop(h[object], key)
    IN IF ~IsObject(srcValue)
       THEN baseMergeKeys(assignMergeValue(h, object, key, srcValue),
                          object, source, keys, i + 1)
       ELSE
         LET srcIsArr == h[srcValue.a].kind = "array"
             keep == IF srcIsArr
                     THEN IsObject(objValue) /\ h[objValue.a].kind = "array"
                     ELSE IsObject(objValue)
             h1 == IF keep THEN h
                   ELSE Alloc(h, IF srcIsArr THEN EmptyArray ELSE EmptyObject)
             newValue == IF keep THEN objValue ELSE Ref(NewAddr(h))
             h2 == IF newValue.a = srcValue.a THEN h1
                   ELSE baseMergeKeys(h1, newValue.a, srcValue.a,
                                      keysIn(h1[srcValue.a]), 1)
         IN baseMergeKeys(assignMergeValue(h2, object, key, newValue),
                          object, source, keys, i + 1)

\* merge(object, source), for two objects in the heap.
lodashMerge(h, object, source) ==
  IF object = source THEN h
  ELSE baseMergeKeys(h, object, source, keysIn(h[source]), 1)

(***************************************************************************)
(* flatten and unflatten                                                   *)
(***************************************************************************)
\* flatten(tree): one entry per leaf, in the order of the tree's keys, keyed
\* by the leaf's keys joined by '.'.  Objects and arrays that have keys are
\* descended into; an empty object or array is a leaf.
RECURSIVE flattenAt(_, _, _)
RECURSIVE flattenKeys(_, _, _, _)
flattenAt(h, x, path) ==
  IF IsObject(x) /\ Len(h[x.a].keys) > 0
  THEN flattenKeys(h, x.a, path, 1)
  ELSE IF Len(path) > 0 THEN <<[k |-> Join(path, <<".">>), v |-> x]>>
  ELSE <<>>
flattenKeys(h, addr, path, i) ==
  IF i > Len(h[addr].keys) THEN <<>>
  ELSE flattenAt(h, h[addr].vals[i], Append(path, h[addr].keys[i]))
       \o flattenKeys(h, addr, path, i + 1)
flatten(h, addr) == flattenAt(h, Ref(addr), <<>>)

\* An object literal of a caller: entries of a key (possibly dotted) and a
\* scalar, or one of the two literals {} and [].
LitObject == [t |-> "{}", v |-> <<>>, a |-> 0]
LitArray == [t |-> "[]", v |-> <<>>, a |-> 0]
Entry(k, x) == [k |-> k, v |-> x]

\* unflatten(data) for flat data: set(prev, key, value) over the entries of
\* data, from a new empty object.
RECURSIVE unflattenFrom(_, _, _, _)
unflattenFrom(h, prev, entries, i) ==
  IF i > Len(entries) \/ Len(h) < prev THEN h
  ELSE
    LET x == entries[i].v
        isLit == x.t \in {"{}", "[]"}
        h1 == IF isLit
              THEN Alloc(h, IF x.t = "[]" THEN EmptyArray ELSE EmptyObject)
              ELSE h
        val == IF isLit THEN Ref(NewAddr(h)) ELSE x
    IN unflattenFrom(lodashSet(h1, prev, entries[i].k, val), prev, entries, i + 1)
\* The heap after unflatten(data); the result is the object at NewAddr(h).
unflatten(h, entries) == unflattenFrom(Alloc(h, EmptyObject), NewAddr(h), entries, 1)

(***************************************************************************)
(* The store.  Its three private objects are the first three of the heap.  *)
(***************************************************************************)
DATA == 1
CONFIG == 2
DICT == 3
\* A cap of twelve rounds.
DepthCapOfTwelve == 10 + 2
\* The depth cap of #substitute (++depth > 10).
DepthCap == 10

\* get(key, defaultValue) of the store, on heap h.
get(h, key, defaultValue) ==
  IF ~Truthy(key) THEN Ref(DATA)
  ELSE lodashGet(h, Ref(DATA), ColonsToDots(key.v), defaultValue)

\* String(value), as String.prototype.replace applies it to what its callback
\* returns: the text of a primitive, the elements of an array joined by ','
\* (null and undefined elements, and holes, as the empty text),
\* '[object Object]'.
RECURSIVE StringOf(_, _)
RECURSIVE JoinElements(_, _, _)
StringOf(h, x) ==
  IF ~IsObject(x) THEN x.v
  ELSE IF h[x.a].kind = "array" THEN JoinElements(h, h[x.a], 0)
  ELSE TextObject
JoinElements(h, array, i) ==
  IF i >= ArrayLength(array) THEN <<>>
  ELSE (IF i > 0 THEN <<",">> ELSE <<>>)
       \o (IF IsNullish(Prop(array, NatText(i))) THEN <<>>
           ELSE StringOf(h, Prop(array, NatText(i))))
       \o JoinElements(h, array, i + 1)

\* Position of the last '$' or '@' at or before position i, 0 when none.
LastSigil(s, i) ==
  LET Last(at) == IF at = {} THEN 0 ELSE CHOOSE j \in at : \A k \in at : k <= j
  IN Last({j \in 1..i : s[j] \in Sigils})

\* #substitutionRegex = /[$@]\{(?!.*?[$@])(.*?)}/g on template s.  The
\* lookahead admits no '$' or '@' after the opening brace, so the one span
\* that can match starts at the last sigil of s; it ends at the first '}'.
\* from = 0 when nothing matches.
substitutionRegex(s) ==
  LET i == LastSigil(s, Len(s))
      j == IF i = 0 \/ i + 1 > Len(s) \/ s[i + 1] # "{" THEN 0
           ELSE IndexOfFrom(s, "}", i + 2)
  IN IF j = 0 THEN [from |-> 0, to |-> 0] ELSE [from |-> i, to |-> j]

\* The functions a registry can hold: eq = (a, b) => Boolean(a === b).
callFunction(name, args) ==
  LET a == IF Len(args) >= 1 THEN args[1] ELSE Undefined
      b == IF Len(args) >= 2 THEN args[2] ELSE Undefined
  IN IF a = b THEN True ELSE False

\* args.find(fb => fb !== undefined && fb !== 'undefined'): the position of
\* the first token that is not the text undefined, 0 when there is none.
RECURSIVE findFallback(_, _)
findFallback(args, i) ==
  IF i > Len(args) THEN 0
  ELSE IF args[i] # TextUndefined THEN i
  ELSE findFallback(args, i + 1)

\* The parts of the span m of template s: the sigil, the namespace, the key
\* and the remaining tokens, and whether the span is the whole template.
parseSpan(s, m) ==
  LET Tokens(parts) == [i \in 1..Len(parts) |-> Trim(parts[i])]
      Parts(id, namespace, tokens) ==
        [id |-> id,
         namespace |-> namespace,
         key |-> tokens[1],
         args |-> Tail(tokens),
         isFinalSubstitution |-> m.from = 1 /\ m.to = Len(s)]
      \* val.match(/^(.*?):(.*)$/) || []: a missing namespace is undefined,
      \* which as a property name reads 'undefined'.
      Match(val, colon) ==
        Parts(s[m.from],
              IF colon = 0 THEN TextUndefined ELSE SubSeq(val, 1, colon - 1),
              Tokens(Split(IF colon = 0 THEN <<>> ELSE Tail2(val, colon + 1), ",")))
      Group(val) == Match(val, IndexOfFrom(val, ":", 1))
  IN Group(SubSeq(s, m.from + 2, m.to - 1))

\* What the callback of one substitution round computes for the span m of
\* template s: the substituted value, the default value it leaves behind, and
\* whether the span is the whole template.
substituteSpan(h, fns, s, m, defaultValue) ==
  LET Arguments(key, args) ==
        <<get(h, Str(key), Str(key))>>
        \o [i \in 1..Len(args) |-> get(h, Str(args[i]), Str(args[i]))]
      Substituted(span, newDefault) ==
        [value |->
           IF span.id = "@"
           THEN IF span.namespace \in fns
                THEN callFunction(span.namespace, Arguments(span.key, span.args))
                ELSE Undefined
           ELSE lodashGet(h, Prop(h[DICT], span.namespace), span.key, newDefault),
         defaultValue |-> newDefault,
         isFinalSubstitution |-> span.isFinalSubstitution]
      Fallback(span, fb) ==
        Substituted(span, IF span.id = "$" /\ fb > 0 THEN Str(span.args[fb])
                          ELSE defaultValue)
      Callback(span) == Fallback(span, findFallback(span.args, 1))
  IN Callback(parseSpan(s, m))

\* A #substitute that returns the replaced text of every round, whatever the
\* type of the value its callback computed.
RECURSIVE substituteText(_, _, _, _, _)
substituteText(h, fns, template, defaultValue, depth) ==
  IF template.t # "string" \/ depth + 1 > DepthCap THEN template
  ELSE
    LET Replaced(s, m, r) ==
          substituteText(h, fns,
                         Str(SubSeq(s, 1, m.from - 1) \o StringOf(h, r.value)
                             \o Tail2(s, m.to + 1)),
                         r.defaultValue, depth + 1)
        Round(s, m) ==
          IF m.from = 0 THEN template
          ELSE Replaced(s, m, substituteSpan(h, fns, s, m, defaultValue))
    IN Round(template.v, substitutionRegex(template.v))

\* #substitute(template, defaultValue, depth)
RECURSIVE substitute(_, _, _, _, _)
substitute(h, fns, template, defaultValue, depth) ==
  IF template.t # "string" \/ depth + 1 > DepthCap THEN template
  ELSE
    LET Replaced(s, m, r) ==
          IF r.isFinalSubstitution /\ r.value.t # "string"
          THEN r.value
          ELSE substitute(h, fns,
                          Str(SubSeq(s, 1, m.from - 1) \o StringOf(h, r.value)
                              \o Tail2(s, m.to + 1)),
                          r.defaultValue, depth + 1)
        Round(s, m) ==
          IF m.from = 0 THEN template
          ELSE Replaced(s, m, substituteSpan(h, fns, s, m, defaultValue))
    IN Round(template.v, substitutionRegex(template.v))

\* The rounds of #substitute(template, defaultValue, depth), in order: for
\* each call of the replace callback, the template s it is applied to, the
\* span m it replaces, the defaultValue it is entered with, the parts of the
\* span and what the callback computes.
RECURSIVE substituteRounds(_, _, _, _, _)
substituteRounds(h, fns, template, defaultValue, depth) ==
  IF template.t # "string" \/ depth + 1 > DepthCap THEN <<>>
  ELSE
    LET Replaced(s, m, r) ==
          << [s |-> s, m |-> m, defaultValue |-> defaultValue,
              span |-> parseSpan(s, m), r |-> r] >>
          \o substituteRounds(h, fns,
                              Str(SubSeq(s, 1, m.from - 1) \o StringOf(h, r.value)
                                  \o Tail2(s, m.to + 1)),
                              r.defaultValue, depth + 1)
        Round(s, m) ==
          IF m.from = 0 THEN <<>>
          ELSE Replaced(s, m, substituteSpan(h, fns, s, m, defaultValue))
    IN Round(template.v, substitutionRegex(template.v))

(***************************************************************************)
(* The simpler variant of the store (src/src/Config.js): value-form         *)
(* placeholders only, five rounds, no tracking of a final substitution.     *)
(***************************************************************************)
\* The depth cap of its #substitute (++depth > 5).
SimpleDepthCap == 5

\* Its #substitutionRegex = /\${(?!.*?\$)(.*?)}/g on template s: the span that
\* opens at the last '$' of s and ends at the first '}' after it.
simpleSubstitutionRegex(s) ==
  LET End(i) ==
        IF i = 0 \/ i + 1 > Len(s) \/ s[i + 1] # "{" THEN 0
        ELSE IndexOfFrom(s, "}", i + 2)
      Span(i, j) == IF j = 0 THEN [from |-> 0, to |-> 0] ELSE [from |-> i, to |-> j]
      Opens(i) == Span(i, End(i))
      Last(at) == IF at = {} THEN 0 ELSE CHOOSE j \in at : \A k \in at : k <= j
  IN Opens(Last({j \in 1..Len(s) : s[j] = "$"}))

\* What its replace callback returns for the span m of s:
\* val.match(/^(.*)?:(.*)$/) splits at the last ':', the tuple gives the key
\* and one default, and the value is get(dictionary[namespace], key, default).
\* The optional group takes no part in the match when the text before the
\* ':' is empty: the namespace is then undefined, as it is without a ':',
\* and as a property name reads 'undefined'.
simpleSubstituteSpan(h, s, m) ==
  LET Found(namespace, tokens) ==
        lodashGet(h, Prop(h[DICT], namespace), tokens[1],
                  IF Len(tokens) >= 2 THEN Str(tokens[2]) ELSE Undefined)
      Tokens(parts) == [i \in 1..Len(parts) |-> Trim(parts[i])]
      Match(val, colon) ==
        Found(IF colon <= 1 THEN TextUndefined ELSE SubSeq(val, 1, colon - 1),
              Tokens(Split(IF colon = 0 THEN <<>> ELSE Tail2(val, colon + 1), ",")))
      LastColon(at) == IF at = {} THEN 0 ELSE CHOOSE j \in at : \A k \in at : k <= j
      Group(val) == Match(val, LastColon({j \in 1..Len(val) : val[j] = ":"}))
  IN Group(SubSeq(s, m.from + 2, m.to - 1))

\* Its #substitute(value, dictionary, depth): every round returns the text
\* that replace produces.
RECURSIVE simpleSubstitute(_, _, _)
simpleSubstitute(h, value, depth) ==
  IF value.t # "string" \/ depth + 1 > SimpleDepthCap THEN value
  ELSE
    LET Replaced(s, m, x) ==
          simpleSubstitute(h,
                           Str(SubSeq(s, 1, m.from - 1) \o StringOf(h, x)
                               \o Tail2(s, m.to + 1)),
                           depth + 1)
        Round(s, m) ==
          IF m.from = 0 THEN value
          ELSE Replaced(s, m, simpleSubstituteSpan(h, s, m))
    IN Round(value.v, simpleSubstitutionRegex(value.v))

\* $value.replace(/^['"](.*)['"]$/, '$1')
stripQuotes(s) ==
  IF Len(s) >= 2 /\ s[1] \in Quotes /\ s[Len(s)] \in Quotes
  THEN SubSeq(s, 2, Len(s) - 1)
  ELSE s

\* A coercion that is applied to every string, substituted or not.
coerceAlways(value, sub) ==
  IF sub.t # "string" THEN sub
  ELSE IF sub.v = TextUndefined THEN Undefined
  ELSE IF sub.v = TextNull THEN Null
  ELSE IF sub.v = TextTrue THEN True
  ELSE IF sub.v = TextFalse THEN False
  ELSE Str(stripQuotes(sub.v))

\* What resolve stores for a leaf whose definition is value and whose
\* substitution is sub.
coerce(value, sub) ==
  IF sub = value \/ sub.t # "string" THEN sub
  ELSE IF sub.v = TextUndefined THEN Undefined
  ELSE IF sub.v = TextNull THEN Null
  ELSE IF sub.v = TextTrue THEN True
  ELSE IF sub.v = TextFalse THEN False
  ELSE Str(stripQuotes(sub.v))

\* The forEach of resolve over the entries of the flattened definition.
RECURSIVE resolveEntries(_, _, _, _)
resolveEntries(h, fns, entries, i) ==
  IF i > Len(entries) \/ Len(h) < DICT THEN h
  ELSE
    LET value == entries[i].v
        sub == substitute(h, fns, value, Undefined, 0)
    IN resolveEntries(lodashSet(h, DATA, entries[i].k, coerce(value, sub)),
                      fns, entries, i + 1)

\* if (dictionary.self) throw ...
reservedKey(h, dictionary) == Truthy(Prop(h[dictionary], SelfKey))

\* resolve(dictionary) past the reserved-key check: the heap it leaves.
resolve(h, fns, dictionary) ==
  LET h1 == lodashMerge(h, DICT, dictionary)
  IN resolveEntries(h1, fns, flatten(h1, CONFIG), 1)

\* resolve() without an argument merges a new empty object.
resolveNoArg(h, fns) == resolve(Alloc(h, EmptyObject), fns, NewAddr(h))

\* merge(data) for flat data given by its entries.
merge(h, fns, entries) ==
  LET h1 == unflatten(h, entries)
      h2 == lodashMerge(h1, CONFIG, NewAddr(h))
  IN resolveNoArg(h2, fns)

\* set(key, value)
set(h, fns, key, x) ==
  resolveNoArg(lodashSet(h, CONFIG, ColonsToDots(key), x), fns)

(***************************************************************************)
(* Inputs.  Keys and strings are kept short; the leaves cover references,  *)
(* chains of references, defaults, dictionary namespaces, function         *)
(* placeholders, arrays, and a whole-string reference to an object.        *)
(***************************************************************************)
\* '${namespace:rest}' and '@{namespace:rest}'
Dollar(namespace, rest) == <<"$", "{">> \o namespace \o <<":">> \o rest \o <<"}">>
At(namespace, rest) == <<"@", "{">> \o namespace \o <<":">> \o rest \o <<"}">>
Sm == <<"s", "m">>
Eq == <<"e", "q">>

\* { n: 'v', b: '${self:n}', a: 'x-${self:b}', s: '${sm:k, d}' }
SeedChain ==
  << Entry(<<"n">>, Str(<<"v">>)),
     Entry(<<"b">>, Str(Dollar(SelfKey, <<"n">>))),
     Entry(<<"a">>, Str(<<"x", "-">> \o Dollar(SelfKey, <<"b">>))),
     Entry(<<"s">>, Str(Dollar(Sm, <<"k", ",", " ", "d">>))) >>
\* { q: '${self:o.k}', o: { k: 'v' }, p: '${self:o}', r: ['y', 'u'] }
SeedObjects ==
  << Entry(<<"q">>, Str(Dollar(SelfKey, <<"o", ".", "k">>))),
     Entry(<<"o", ".", "k">>, Str(<<"v">>)),
     Entry(<<"p">>, Str(Dollar(SelfKey, <<"o">>))),
     Entry(<<"r", ".", "0">>, Str(<<"y">>)),
     Entry(<<"r", ".", "1">>, Str(<<"u">>)) >>
\* { a: '@{eq:b, e}', b: '@{eq:c, k}', c: 'k', e: '${self:t, true}' }
SeedFunctions ==
  << Entry(<<"a">>, Str(At(Eq, <<"b", ",", " ", "e">>))),
     Entry(<<"b">>, Str(At(Eq, <<"c", ",", " ", "k">>))),
     Entry(<<"c">>, Str(<<"k">>)),
     Entry(<<"e">>, Str(Dollar(SelfKey, <<"t", ",", " ">> \o TextTrue))) >>
\* { d: '${self:x, , b}', f: '${self:x, undefined, b}', g: '${self:x, b, c}',
\*   h: '${self:x, undefined}', i: '${self:x,}' }
SeedDefaults ==
  << Entry(<<"d">>, Str(Dollar(SelfKey, <<"x", ",", " ", ",", " ", "b">>))),
     Entry(<<"f">>, Str(Dollar(SelfKey, <<"x", ",", " ">> \o TextUndefined
                                          \o <<",", " ", "b">>))),
     Entry(<<"g">>, Str(Dollar(SelfKey, <<"x", ",", " ", "b", ",", " ", "c">>))),
     Entry(<<"h">>, Str(Dollar(SelfKey, <<"x", ",", " ">> \o TextUndefined))),
     Entry(<<"i">>, Str(Dollar(SelfKey, <<"x", ",">>))) >>
\* { t: '${self:y}-${self:x, d}', u: '${self:${self:k, m}}', w: '${self:y}',
\*   j: 'x-${self:y}' }
SeedLeaks ==
  << Entry(<<"t">>, Str(Dollar(SelfKey, <<"y">>) \o <<"-">>
                        \o Dollar(SelfKey, <<"x", ",", " ", "d">>))),
     Entry(<<"u">>, Str(Dollar(SelfKey, Dollar(SelfKey, <<"k", ",", " ", "m">>)))),
     Entry(<<"w">>, Str(Dollar(SelfKey, <<"y">>))),
     Entry(<<"j">>, Str(<<"x", "-">> \o Dollar(SelfKey, <<"y">>))) >>
\* { n: 5, b: false, l: null, o: { k: 'v' }, r: ['y'], an: '${self:n}',
\*   ab: '${self:b}', al: '${self:l}', ao: '${self:o}', ar: '${self:r}',
\*   c: '${self:an}', xn: 'x-${self:n}' }
SeedTyped ==
  << Entry(<<"n">>, Num(5)),
     Entry(<<"b">>, False),
     Entry(<<"l">>, Null),
     Entry(<<"o", ".", "k">>, Str(<<"v">>)),
     Entry(<<"r", ".", "0">>, Str(<<"y">>)),
     Entry(<<"a", "n">>, Str(Dollar(SelfKey, <<"n">>))),
     Entry(<<"a", "b">>, Str(Dollar(SelfKey, <<"b">>))),
     Entry(<<"a", "l">>, Str(Dollar(SelfKey, <<"l">>))),
     Entry(<<"a", "o">>, Str(Dollar(SelfKey, <<"o">>))),
     Entry(<<"a", "r">>, Str(Dollar(SelfKey, <<"r">>))),
     Entry(<<"c">>, Str(Dollar(SelfKey, <<"a", "n">>))),
     Entry(<<"x", "n">>, Str(<<"x", "-">> \o Dollar(SelfKey, <<"n">>))) >>
\* { pt: 'true', pf: 'false', pn: 'null', pu: 'undefined', pq: "'v'",
\*   rt: '${self:pt}', rf: '${self:pf}', rn: '${self:pn}', ru: '${self:pu}',
\*   rq: '${self:pq}', et: 't${self:x, rue}' }
SeedLiterals ==
  << Entry(<<"p", "t">>, Str(TextTrue)),
     Entry(<<"p", "f">>, Str(TextFalse)),
     Entry(<<"p", "n">>, Str(TextNull)),
     Entry(<<"p", "u">>, Str(TextUndefined)),
     Entry(<<"p", "q">>, Str(<<"'", "v", "'">>)),
     Entry(<<"r", "t">>, Str(Dollar(SelfKey, <<"p", "t">>))),
     Entry(<<"r", "f">>, Str(Dollar(SelfKey, <<"p", "f">>))),
     Entry(<<"r", "n">>, Str(Dollar(SelfKey, <<"p", "n">>))),
     Entry(<<"r", "u">>, Str(Dollar(SelfKey, <<"p", "u">>))),
     Entry(<<"r", "q">>, Str(Dollar(SelfKey, <<"p", "q">>))),
     Entry(<<"e", "t">>, Str(<<"t">> \o Dollar(SelfKey, <<"x", ",", " ", "r", "u", "e">>))) >>
\* k placeholders '${self:n}' in a row.
RECURSIVE Placeholders(_)
Placeholders(k) ==
  IF k = 0 THEN <<>> ELSE Dollar(SelfKey, <<"n">>) \o Placeholders(k - 1)
\* { n: 'v', kb: '${self:n}${self:n}', kc: ten placeholders '${self:n}',
\*   kd: eleven placeholders '${self:n}', em: '${self:n}@x' }
SeedMany ==
  << Entry(<<"n">>, Str(<<"v">>)),
     Entry(<<"k", "b">>, Str(Placeholders(2))),
     Entry(<<"k", "c">>, Str(Placeholders(DepthCap))),
     Entry(<<"k", "d">>, Str(Placeholders(DepthCap + 1))),
     Entry(<<"e", "m">>, Str(Dollar(SelfKey, <<"n">>) \o <<"@", "x">>)) >>
\* { a: '${self:a}', b: '${self:c}', c: '${self:b}', g: 'x${self:g}' }
SeedCircular ==
  << Entry(<<"a">>, Str(Dollar(SelfKey, <<"a">>))),
     Entry(<<"b">>, Str(Dollar(SelfKey, <<"c">>))),
     Entry(<<"c">>, Str(Dollar(SelfKey, <<"b">>))),
     Entry(<<"g">>, Str(<<"x">> \o Dollar(SelfKey, <<"g">>))) >>
\* { ma: '${name}', mb: 'x-${name}', mc: '${name' }
SeedMalformed ==
  << Entry(<<"m", "a">>, Str(<<"$", "{", "n", "a", "m", "e", "}">>)),
     Entry(<<"m", "b">>, Str(<<"x", "-", "$", "{", "n", "a", "m", "e", "}">>)),
     Entry(<<"m", "c">>, Str(<<"$", "{", "n", "a", "m", "e">>)) >>
\* { p: '${sm:o}', t: '${sm:o.k}' }
SeedNamespace ==
  << Entry(<<"p">>, Str(Dollar(Sm, <<"o">>))),
     Entry(<<"t">>, Str(Dollar(Sm, <<"o", ".", "k">>))) >>
\* The arguments a store is constructed with: the data (given = FALSE: no
\* data) and the function registry.
Constructions ==
  { [given |-> FALSE, entries |-> <<>>, functions |-> {}],
    [given |-> TRUE, entries |-> SeedChain, functions |-> {Eq}],
    [given |-> TRUE, entries |-> SeedObjects, functions |-> {}],
    [given |-> TRUE, entries |-> SeedFunctions, functions |-> {Eq}],
    [given |-> TRUE, entries |-> SeedFunctions, functions |-> {}],
    [given |-> TRUE, entries |-> SeedDefaults, functions |-> {}],
    [given |-> TRUE, entries |-> SeedLeaks, functions |-> {}],
    [given |-> TRUE, entries |-> SeedTyped, functions |-> {}],
    [given |-> TRUE, entries |-> SeedLiterals, functions |-> {}],
    [given |-> TRUE, entries |-> SeedMany, functions |-> {}],
    [given |-> TRUE, entries |-> SeedCircular, functions |-> {}],
    [given |-> TRUE, entries |-> SeedMalformed, functions |-> {}],
    [given |-> TRUE, entries |-> SeedNamespace, functions |-> {}] }

\* The data of merge(data): { n: 'w' }, { 'r.0': 'z' } (the array ['z']) and
\* { 'r.0.k': 'z' } (the array of objects [{ k: 'z' }]).
MergeInputs ==
  { <<Entry(<<"n">>, Str(<<"w">>))>>,
    <<Entry(<<"r", ".", "0">>, Str(<<"z">>))>>,
    <<Entry(<<"r", ".", "0", ".", "k">>, Str(<<"z">>))>> }
\* set(key, value) with a scalar value: set('n', 'w'), set('p:k', 'w'),
\* set('r.2', 'x') past the end of an array, and set('o.0', 'x') of an
\* index key in a plain object.
SetScalars ==
  { [key |-> <<"n">>, x |-> Str(<<"w">>)],
    [key |-> <<"p", ":", "k">>, x |-> Str(<<"w">>)],
    [key |-> <<"r", ".", "2">>, x |-> Str(<<"x">>)],
    [key |-> <<"o", ".", "0">>, x |-> Str(<<"x">>)] }
\* set(key, obj) with an object of the caller: { k: 'v' }, {} and { m: 'w' }
\* at o, and the array ['a'] at r.
SetObjects ==
  { [key |-> <<"o">>, array |-> FALSE, entries |-> <<Entry(<<"k">>, Str(<<"v">>))>>],
    [key |-> <<"o">>, array |-> FALSE, entries |-> <<>>],
    [key |-> <<"o">>, array |-> FALSE, entries |-> <<Entry(<<"m">>, Str(<<"w">>))>>],
    [key |-> <<"r">>, array |-> TRUE, entries |-> <<Entry(<<"0">>, Str(<<"a">>))>>] }
\* The dictionaries of resolve(dictionary).
Dictionaries ==
  { <<Entry(<<"s", "m", ".", "k">>, Str(<<"v">>))>>,
    <<Entry(<<"s", "m", ".", "m">>, Str(<<"w">>))>>,
    <<Entry(<<"s", "m", ".", "o", ".", "k">>, Str(<<"v">>))>>,
    <<Entry(Sm, Str(<<"x">>))>>,
    <<Entry(SelfKey, Str(<<"x">>)), Entry(<<"s", "m", ".", "k">>, Str(<<"v">>))>>,
    <<Entry(SelfKey, LitObject)>>,
    <<Entry(SelfKey, Num(0))>>,
    <<Entry(SelfKey, Null), Entry(<<"s", "m", ".", "k">>, Str(<<"v">>))>> }
\* The keys of get(key); undefined is get().
GetKeys == { Undefined, Str(<<"o">>), Str(<<"r">>) }

\* The number of calls on a store after its construction.
MaxOps == 2

(***************************************************************************)
(* The state: the heap; the registry; the calls made so far and the heap   *)
(* before each; the object the caller holds a reference to.                *)
(***************************************************************************)
VARIABLES heap, functions, log, hist, held

vars == <<heap, functions, log, hist, held>>

\* The private fields of a new store: #data = {}, #config = {},
\* #dictionary = { self: this.#config }.
NewStore ==
  << EmptyObject, EmptyObject,
     [kind |-> "object", keys |-> <<SelfKey>>, vals |-> <<Ref(CONFIG)>>] >>

\* constructor(data, functions)
construct(seed) ==
  IF seed.given THEN merge(NewStore, seed.functions, seed.entries) ELSE NewStore

NoObject == [a |-> 0, from |-> "none", key |-> Undefined]
Call(op, ok, key, x, d) == [op |-> op, ok |-> ok, key |-> key, x |-> x, d |-> d]
Record(call) ==
  /\ log' = Append(log, call)
  /\ hist' = Append(hist, heap)

Init ==
  /\ \E seed \in Constructions :
       /\ functions = seed.functions
       /\ heap = construct(seed)
  /\ log = <<>>
  /\ hist = <<>>
  /\ held = NoObject

\* merge(data) with data
Merge(entries) ==
  /\ Len(log) < MaxOps
  /\ heap' = merge(heap, functions, entries)
  /\ Record(Call("merge", TRUE, Undefined, Ref(NewAddr(heap)), NewAddr(heap)))
  /\ UNCHANGED <<functions, held>>

\* merge(null), merge(): data == null, nothing is done
MergeNothing ==
  /\ Len(log) < MaxOps
  /\ Record(Call("merge", TRUE, Undefined, Null, 0))
  /\ UNCHANGED <<heap, functions, held>>

\* set(key, value) with a scalar
SetScalar(key, x) ==
  /\ Len(log) < MaxOps
  /\ heap' = set(heap, functions, key, x)
  /\ Record(Call("set", TRUE, Str(key), x, 0))
  /\ UNCHANGED <<functions, held>>

\* An object or array literal of the caller: the heap with it, at NewAddr(h).
literal(h, array, entries) ==
  unflattenFrom(Alloc(h, IF array THEN EmptyArray ELSE EmptyObject),
                NewAddr(h), entries, 1)

\* const obj = {...}; set(key, obj): the caller keeps its reference to obj
SetObject(key, array, entries) ==
  /\ Len(log) < MaxOps
  /\ LET h1 == literal(heap, array, entries)
         obj == NewAddr(heap)
     IN /\ heap' = set(h1, functions, key, Ref(obj))
        /\ Record(Call("set", TRUE, Str(key), Ref(obj), 0))
        /\ held' = [a |-> obj, from |-> "set", key |-> Str(key)]
  /\ UNCHANGED functions

\* A resolve that merges the dictionary before it tests the reserved key.
resolveCallMergeFirst(h, fns, dictionary) ==
  IF reservedKey(h, dictionary)
  THEN [ok |-> FALSE, heap |-> lodashMerge(h, DICT, dictionary)]
  ELSE [ok |-> TRUE, heap |-> resolve(h, fns, dictionary)]

\* What resolve(dictionary) does: it throws on the reserved key, before
\* anything else, and otherwise merges and resolves.
resolveCall(h, fns, dictionary) ==
  IF reservedKey(h, dictionary)
  THEN [ok |-> FALSE, heap |-> h]
  ELSE [ok |-> TRUE, heap |-> resolve(h, fns, dictionary)]

\* resolve(dictionary) with a dictionary of the caller
Resolve(entries) ==
  /\ Len(log) < MaxOps
  /\ LET Returns(r, dictionary) ==
           /\ heap' = r.heap
           /\ Record(Call("resolve", r.ok, Undefined, Ref(dictionary), dictionary))
     IN Returns(resolveCall(unflatten(heap, entries), functions, NewAddr(heap)),
                NewAddr(heap))
  /\ UNCHANGED <<functions, held>>

\* resolve()
ResolveNoArg ==
  /\ Len(log) < MaxOps
  /\ heap' = resolveNoArg(heap, functions)
  /\ Record(Call("resolve", TRUE, Undefined, Undefined, 0))
  /\ UNCHANGED <<functions, held>>

\* A get that returns a copy of the object or array it finds.
getCallCopy(h, key) ==
  LET x == get(h, key, Undefined)
  IN IF IsObject(x)
     THEN [heap |-> Alloc(h, h[x.a]), value |-> Ref(NewAddr(h))]
     ELSE [heap |-> h, value |-> x]

\* What get(key) returns, and the heap it leaves.
getCall(h, key) == [heap |-> h, value |-> get(h, key, Undefined)]

\* const x = get(key), for a key that holds an object or array: the caller
\* keeps the reference
Get(key) ==
  /\ Len(log) < MaxOps
  /\ LET r == getCall(heap, key)
     IN /\ IsObject(r.value)
        /\ heap' = r.heap
        /\ Record(Call("get", TRUE, key, r.value, 0))
        /\ held' = [a |-> r.value.a, from |-> "get", key |-> key]
  /\ UNCHANGED functions

\* arr.push('d'), obj.z = 'z'
Mutated(o) ==
  IF o.kind = "array"
  THEN Assign(o, NatText(ArrayLength(o)), Str(<<"d">>))
  ELSE Assign(o, <<"z">>, Str(<<"z">>))

\* The caller changes the object it holds.
Mutate ==
  /\ Len(log) < MaxOps
  /\ held.a # 0
  /\ heap' = [heap EXCEPT ![held.a] = Mutated(@)]
  /\ Record(Call("mutate", TRUE, held.key, Ref(held.a), 0))
  /\ UNCHANGED <<functions, held>>

Next ==
  \/ \E entries \in MergeInputs : Merge(entries)
  \/ MergeNothing
  \/ \E s \in SetScalars : SetScalar(s.key, s.x)
  \/ \E s \in SetObjects : SetObject(s.key, s.array, s.entries)
  \/ \E entries \in Dictionaries : Resolve(entries)
  \/ ResolveNoArg
  \/ \E key \in GetKeys : Get(key)
  \/ Mutate

Spec == Init /\ [][Next]_vars

(***************************************************************************)
(* Views of the state the properties are stated on.                        *)
(***************************************************************************)
\* The last call and the heap before it.
Last == log[Len(log)]
Before == hist[Len(hist)]
\* The heap after call i.
After(i) == IF i = Len(log) THEN heap ELSE hist[i + 1]

\* The structure below a value, in pre-order: one entry per node, an object
\* or array as its literal; two values have equal views exactly when they
\* are deeply equal.
RECURSIVE View(_, _, _), ViewKeys(_, _, _, _)
View(h, x, path) ==
  IF IsObject(x)
  THEN <<Entry(path, IF h[x.a].kind = "array" THEN LitArray ELSE LitObject)>>
         \o ViewKeys(h, x.a, path, 1)
  ELSE <<Entry(path, x)>>
ViewKeys(h, addr, path, i) ==
  IF i > Len(h[addr].keys) THEN <<>>
  ELSE View(h, h[addr].vals[i],
            IF path = <<>> THEN h[addr].keys[i]
            ELSE path \o <<".">> \o h[addr].keys[i])
         \o ViewKeys(h, addr, path, i + 1)

\* The three trees of the store.
ResolvedTree(h) == View(h, Ref(DATA), <<>>)
DefinitionTree(h) == View(h, Ref(CONFIG), <<>>)
Dictionary(h) == View(h, Ref(DICT), <<>>)

(***************************************************************************)
(* C1.  resolve(dictionary) fails with an error whenever dictionary has    *)
(* the key self, for every value bound to that key, and such a dictionary  *)
(* is never merged into the Dictionary.                                    *)
(***************************************************************************)
\* C1 as the specification states it: every resolve call whose dictionary
\* has the key self has failed and has left the Dictionary as it was.
C1_SelfKeyAlwaysRejected ==
  \A i \in 1..Len(log) :
    (log[i].op = "resolve" /\ log[i].d # 0 /\ HasKey(heap[log[i].d], SelfKey))
      => /\ ~log[i].ok
         /\ After(i)[DICT] = hist[i][DICT]

(***************************************************************************)
(* C2.  The self namespace of the Dictionary is the Definition Tree        *)
(* itself, at every moment.                                                *)
(***************************************************************************)
\* C2 as the specification states it: #dictionary.self is #config, so a
\* read of self:path finds what the Definition Tree holds at path.
C2_SelfIsTheDefinitionTree ==
  /\ Prop(heap[DICT], SelfKey) = Ref(CONFIG)
  /\ \A i \in 1..Len(flatten(heap, CONFIG)) :
       LET e == flatten(heap, CONFIG)[i]
       IN lodashGet(heap, Prop(heap[DICT], SelfKey), e.k, Undefined) = e.v

(***************************************************************************)
(* C3.  resolve() run twice in a row, with the Definition Tree and the     *)
(* Dictionary unchanged, leaves get(path) the same for every path, also    *)
(* for leaves with function-form placeholders.                             *)
(***************************************************************************)
\* C3 as the specification states it: the second of two resolve() calls in
\* a row leaves the Resolved Tree as the first left it.
C3_ResolveTwiceIsIdempotent ==
  \A i \in 2..Len(log) :
    (/\ log[i].op = "resolve" /\ log[i].d = 0
     /\ log[i - 1].op = "resolve" /\ log[i - 1].d = 0)
      => ResolvedTree(After(i)) = ResolvedTree(hist[i])

(***************************************************************************)
(* C4.  When merge or set returns, every leaf whose value-form             *)
(* placeholders reference a path changed by the call holds its new         *)
(* resolved value: get never returns a value computed from the definition  *)
(* as it was before the call.                                              *)
(***************************************************************************)
\* A string with a placeholder and without a function-form placeholder.
ValueFormOnly(x) ==
  /\ x.t = "string"
  /\ substitutionRegex(x.v).from # 0
  /\ \A i \in 1..Len(x.v) : x.v[i] # "@"

\* The value a leaf of the definition resolves to in heap h.
Resolution(h, fns, x) == coerce(x, substitute(h, fns, x, Undefined, 0))

\* C4 as the specification states it: after set, or merge of some data,
\* get of every value-form leaf is the leaf resolved against the definition
\* and the dictionary as the call left them.
C4_NoStaleValueAfterMergeOrSet ==
  (Len(log) > 0 /\ (Last.op = "set" \/ (Last.op = "merge" /\ Last.d # 0)))
    => \A i \in 1..Len(flatten(heap, CONFIG)) :
         LET e == flatten(heap, CONFIG)[i]
         IN ValueFormOnly(e.v)
              => get(heap, Str(e.k), Undefined) = Resolution(heap, functions, e.v)

(***************************************************************************)
(* C5.  set(path, obj) stores the object by value: get(path) and later     *)
(* resolutions never see a change the caller makes to obj afterwards.      *)
(***************************************************************************)
\* C5 as the specification states it: while the only calls after
\* set(path, obj) are resolve, get and the caller's changes to obj,
\* get(path) is deeply equal to obj as it was when set returned.
C5_SetStoresObjectByValue ==
  \A i \in 1..Len(log) :
    (/\ log[i].op = "set" /\ IsObject(log[i].x)
     /\ \A j \in (i + 1)..Len(log) :
          \/ log[j].op \in {"resolve", "get"}
          \/ log[j].op = "mutate" /\ log[j].x = log[i].x)
      => View(heap, get(heap, log[i].key, Undefined), <<>>)
           = View(After(i), log[i].x, <<>>)

(***************************************************************************)
(* C7.  A resolve call that fails on the reserved-key check leaves the     *)
(* Dictionary, the Definition Tree and the Resolved Tree exactly as they   *)
(* were before the call: every get returns the same value after it as      *)
(* before it.                                                              *)
(***************************************************************************)
\* C7: after a failed resolve every object the heap held before the call is
\* as it was, and so are the three trees.
C7_FailedResolveChangesNothing ==
  \A i \in 1..Len(log) :
    (log[i].op = "resolve" /\ ~log[i].ok)
      => /\ \A a \in 1..Len(hist[i]) : After(i)[a] = hist[i][a]
         /\ Dictionary(After(i)) = Dictionary(hist[i])
         /\ DefinitionTree(After(i)) = DefinitionTree(hist[i])
         /\ ResolvedTree(After(i)) = ResolvedTree(hist[i])

\* A resolve has failed on a store that holds resolved values and whose
\* dictionary has a namespace beside self.
C7_Witness ==
  /\ Len(log) > 1
  /\ Last.op = "resolve" /\ ~Last.ok
  /\ Len(heap[DATA].keys) > 0
  /\ Len(heap[DICT].keys) > 1

(***************************************************************************)
(* C8.  get makes no defensive copy: when the caller mutates an object or  *)
(* array returned by get(path) or by get(), a later get of the same path,  *)
(* with no merge, set or resolve in between, returns the same object and   *)
(* shows the mutation.                                                     *)
(***************************************************************************)
\* C8: right after the caller has mutated what get returned, get of the
\* same path returns that object again, and the object is the mutated one.
C8_GetReturnsTheLiveObject ==
  \A i \in 2..Len(log) :
    (log[i].op = "mutate" /\ log[i - 1].op = "get")
      => LET x == log[i - 1].x
             again == getCall(After(i), log[i - 1].key).value
         IN /\ again = x
            /\ After(i)[again.a] = Mutated(hist[i][x.a])

\* The caller has mutated an array returned by get(path).
C8_Witness ==
  /\ Len(log) > 1
  /\ Last.op = "mutate"
  /\ log[Len(log) - 1].op = "get"
  /\ log[Len(log) - 1].key = Str(<<"r">>)
  /\ heap[Last.x.a].kind = "array"
  /\ ArrayLength(heap[Last.x.a]) = 3

(***************************************************************************)
(* C10.  For a value-form placeholder whose keypath is absent from its     *)
(* namespace, the fallback is the first token, left to right, of the       *)
(* comma-separated remainder that is neither empty after trimming nor the  *)
(* literal text undefined; empty tokens are skipped.                       *)
(***************************************************************************)
\* The rounds of the resolution of the leaf at position i of the flattened
\* definition.
LeafRounds(h, i) ==
  substituteRounds(h, functions, flatten(h, CONFIG)[i].v, Undefined, 0)

\* The span of a round is a value-form placeholder whose keypath is absent
\* from its namespace.
AbsentKeypath(h, round) ==
  /\ round.span.id = "$"
  /\ lodashGet(h, Prop(h[DICT], round.span.namespace), round.span.key,
               Undefined) = Undefined

\* The positions of the remainder tokens that are neither empty nor the text
\* undefined.
NonEmptyTokens(args) ==
  { j \in 1..Len(args) : args[j] # <<>> /\ args[j] # TextUndefined }

\* The first of a set of positions.
FirstOf(positions) == CHOOSE j \in positions : \A k \in positions : j <= k

\* C10 as the specification states it: in every round of every leaf, a
\* value-form placeholder whose keypath is absent and that has a remainder
\* token neither empty nor the text undefined is replaced by the first such
\* token.
C10_FallbackSkipsEmptyTokens ==
  \A i \in 1..Len(flatten(heap, CONFIG)) :
    \A k \in 1..Len(LeafRounds(heap, i)) :
      LET round == LeafRounds(heap, i)[k]
      IN (AbsentKeypath(heap, round) /\ NonEmptyTokens(round.span.args) # {})
           => round.r.value
                = Str(round.span.args[FirstOf(NonEmptyTokens(round.span.args))])

(***************************************************************************)
(* What a deep merge does to a path of its target.                         *)
(***************************************************************************)
\* The walk of the path segs, from segment i on, in the source src (in heap
\* hs) and the target dst (in heap hd) of a merge: "absent" when the source
\* has no value on the way, all it holds above being merged into what the
\* target holds; "present" when the source holds a value at the path;
\* "blocked" when the source holds, above the path, a value that replaces
\* what the target holds there.  Arrays merge into arrays when elementwise.
RECURSIVE mergeReaches(_, _, _, _, _, _, _)
mergeReaches(hs, src, hd, dst, segs, i, elementwise) ==
  LET x == IF IsObject(src) THEN Prop(hs[src.a], segs[i]) ELSE Undefined
      y == IF IsObject(dst) THEN Prop(hd[dst.a], segs[i]) ELSE Undefined
  IN IF x = Undefined THEN "absent"
     ELSE IF i = Len(segs) THEN "present"
     ELSE IF /\ IsObject(x) /\ IsObject(y)
             /\ \/ hs[x.a].kind = "object"
                \/ elementwise /\ hd[y.a].kind = "array"
          THEN mergeReaches(hs, x, hd, y, segs, i + 1, elementwise)
     ELSE "blocked"

\* The last call is a successful resolve(dictionary), a merge(data).
LastMerges(op) == Len(log) > 0 /\ Last.op = op /\ Last.ok /\ Last.d # 0

(***************************************************************************)
(* C6.  After successful resolve(d1), ..., resolve(dn), every namespace    *)
(* and nested key that an earlier di supplied and no later dj supplied     *)
(* again is still in the Dictionary with its value, so a placeholder that  *)
(* resolved through it keeps resolving to the same value after each later  *)
(* resolve, merge or set.                                                  *)
(***************************************************************************)
\* The paths of the Dictionary of heap h outside the namespace self, as
\* positions in its flattening.
Supplied(h) ==
  { i \in 1..Len(flatten(h, DICT)) : castPath(flatten(h, DICT)[i].k)[1] # SelfKey }

\* '${namespace:rest}' for the path namespace.rest
PlaceholderOf(path) ==
  Str(Dollar(castPath(path)[1], Join(Tail(castPath(path)), <<".">>)))

\* The Dictionary still holds value x at path after the last call, and the
\* placeholder through it resolves as before.
KeptInDictionary(path, x) ==
  /\ lodashGet(heap, Ref(DICT), path, Undefined) = x
  /\ Resolution(heap, functions, PlaceholderOf(path))
       = Resolution(Before, functions, PlaceholderOf(path))

\* How the dictionary of the last call reaches path.
LastDictionaryReaches(path) ==
  IF LastMerges("resolve")
  THEN mergeReaches(heap, Last.x, Before, Ref(DICT), castPath(path), 1, TRUE)
  ELSE "absent"

\* C6 as the specification states it: after every call, each path of the
\* Dictionary that the call did not supply again holds the value it held
\* before, and the placeholder through it resolves as before.
C6_DictionaryKeepsWhatIsNotSuppliedAgain ==
  Len(log) > 0 =>
    \A i \in Supplied(Before) :
      LET e == flatten(Before, DICT)[i]
      IN LastDictionaryReaches(e.k) # "present" => KeptInDictionary(e.k, e.v)

(***************************************************************************)
(* C9.  merge(data) replaces an array or scalar of the Definition Tree     *)
(* wholesale by the value data holds at the same path: after merging an    *)
(* array of length m over an array of length n > m the Definition Tree,    *)
(* and so get at that path, holds exactly the m new elements and none of   *)
(* the old ones, while keys absent from data are kept.                     *)
(***************************************************************************)
\* The object of the last call's argument, as the caller passed it.
Data == View(heap, Last.x, <<>>)
IsScalar(x) == x.t \in {"null", "boolean", "number", "string"}

\* The value the Definition Tree and the Resolved Tree hold at path.
Defined(h, path) == lodashGet(h, Ref(CONFIG), path, Undefined)
Resolved(h, path) == get(h, Str(path), Undefined)

\* The leaves of the Definition Tree before the last call that the data,
\* walked with or without merging arrays element by element, does not hold
\* and does not replace, are as they were.
AbsentKeysKept(elementwise) ==
  \A i \in 1..Len(flatten(Before, CONFIG)) :
    LET e == flatten(Before, CONFIG)[i]
    IN mergeReaches(heap, Last.x, Before, Ref(CONFIG), castPath(e.k), 1,
                    elementwise) = "absent"
         => Defined(heap, e.k) = e.v

\* C9 as the specification states it: where data holds an array or a scalar
\* the Definition Tree and get hold just that, and absent keys are kept.
C9_MergeReplacesArraysWholesale ==
  LastMerges("merge") =>
    /\ \A i \in 2..Len(Data) :
         (Data[i].v = LitArray \/ IsScalar(Data[i].v))
           => /\ View(heap, Defined(heap, Data[i].k), <<>>)
                   = View(heap, lodashGet(heap, Last.x, Data[i].k, Undefined), <<>>)
              /\ View(heap, Resolved(heap, Data[i].k), <<>>)
                   = View(heap, lodashGet(heap, Last.x, Data[i].k, Undefined), <<>>)
    /\ AbsentKeysKept(FALSE)

(***************************************************************************)
(* C11.  A value-form placeholder that has no default and whose namespace  *)
(* or keypath is missing resolves to undefined, wherever it stands in the  *)
(* leaf: its fallback is taken only from its own remainder tokens, never   *)
(* from the default of another placeholder of the same string or of an     *)
(* earlier substitution round.                                             *)
(***************************************************************************)
\* The span of a round is a value-form placeholder without a default of its
\* own whose lookup finds nothing.
MissingWithoutDefault(h, round) ==
  /\ round.span.id = "$"
  /\ findFallback(round.span.args, 1) = 0
  /\ lodashGet(h, Prop(h[DICT], round.span.namespace), round.span.key,
               Undefined) = Undefined

\* C11 as the specification states it: in every round of every leaf, a
\* value-form placeholder that has no default of its own and whose lookup
\* finds nothing is replaced by undefined.
C11_MissingWithoutDefaultIsUndefined ==
  \A i \in 1..Len(flatten(heap, CONFIG)) :
    \A k \in 1..Len(LeafRounds(heap, i)) :
      MissingWithoutDefault(heap, LeafRounds(heap, i)[k])
        => LeafRounds(heap, i)[k].r.value = Undefined

(***************************************************************************)
(* C12.  When a leaf is exactly one placeholder span and its lookup yields *)
(* a value that is not a string (boolean, number, null, object or array),  *)
(* the resolved value of the leaf is that value with its type, not its     *)
(* text form.                                                              *)
(***************************************************************************)
\* The leaf x is exactly one value-form placeholder span.
IsOneSpan(x) ==
  /\ x.t = "string"
  /\ substitutionRegex(x.v) = [from |-> 1, to |-> Len(x.v)]
  /\ x.v[1] = "$"

\* What the placeholder of the one-span leaf x looks up in the Dictionary.
Lookup(h, x) ==
  LET span == parseSpan(x.v, substitutionRegex(x.v))
  IN lodashGet(h, Prop(h[DICT], span.namespace), span.key, Undefined)

\* The values that are not strings: boolean, number, null, object, array.
IsTyped(x) == x.t \in {"boolean", "number", "null", "ref"}

\* What the pass of the simpler variant stores for the leaf x.
SimpleResolution(h, x) == coerce(x, simpleSubstitute(h, x, 0))

\* C12 as the specification states it, of both variants of the store: a
\* one-span leaf whose lookup is not a string resolves to the value looked
\* up, in the variant with function placeholders (what get returns) and in
\* the simpler variant (what its pass stores for the leaf).
C12_OneSpanKeepsTheTypeInBothVariants ==
  \A i \in 1..Len(flatten(heap, CONFIG)) :
    LET e == flatten(heap, CONFIG)[i]
    IN (IsOneSpan(e.v) /\ IsTyped(Lookup(heap, e.v)))
         => /\ get(heap, Str(e.k), Undefined) = Lookup(heap, e.v)
            /\ SimpleResolution(heap, e.v) = Lookup(heap, e.v)

\* C12 amended: in the variant with function placeholders, get of a one-span
\* leaf whose lookup is not a string returns the value looked up, an object
\* or array being the very object looked up.
C12_OneSpanKeepsTheType ==
  \A i \in 1..Len(flatten(heap, CONFIG)) :
    LET e == flatten(heap, CONFIG)[i]
    IN (IsOneSpan(e.v) /\ IsTyped(Lookup(heap, e.v)))
         => get(heap, Str(e.k), Undefined) = Lookup(heap, e.v)

\* After a call on the store, the leaf '${self:n}' of a definition with
\* n = 5 holds the number 5, and the leaf '${self:o}' an object.
C12_Witness ==
  /\ Len(log) > 0
  /\ \E i \in 1..Len(flatten(heap, CONFIG)) :
       LET e == flatten(heap, CONFIG)[i]
       IN /\ IsOneSpan(e.v)
          /\ Lookup(heap, e.v) = Num(5)
          /\ get(heap, Str(e.k), Undefined) = Num(5)
  /\ \E i \in 1..Len(flatten(heap, CONFIG)) :
       LET e == flatten(heap, CONFIG)[i]
       IN /\ IsOneSpan(e.v)
          /\ IsObject(Lookup(heap, e.v))
          /\ heap[get(heap, Str(e.k), Undefined).a].kind = "object"

(***************************************************************************)
(* C13.  Literal-token coercion applies only to substituted leaves: a      *)
(* string leaf that contains no placeholder is stored in the Resolved Tree *)
(* unchanged, whereas a leaf whose substituted text differs from the       *)
(* original and is exactly undefined, null, true or false resolves to the  *)
(* typed value undefined, null, boolean true or boolean false.             *)
(***************************************************************************)
\* The typed value of a literal token.
Literal(text) ==
  CASE text = TextUndefined -> Undefined
    [] text = TextNull -> Null
    [] text = TextTrue -> True
    [] text = TextFalse -> False
LiteralTokens == {TextUndefined, TextNull, TextTrue, TextFalse}

\* The text the substitution of leaf x ends with in heap h.
Substituted(h, x) == substitute(h, functions, x, Undefined, 0)

\* C13: a resolution pass over the definition stores a string leaf without
\* a placeholder as it is defined, and stores the typed value for a leaf with
\* value-form placeholders whose substituted text is a literal token and is
\* not the original text.
C13_CoercionOnlyOfSubstitutedLeaves ==
  [][ResolveNoArg =>
       \A i \in 1..Len(flatten(heap, CONFIG)) :
         LET e == flatten(heap, CONFIG)[i]
         IN /\ (e.v.t = "string" /\ substitutionRegex(e.v.v).from = 0)
                 => get(heap', Str(e.k), Null) = e.v
            /\ (/\ ValueFormOnly(e.v)
                /\ Substituted(heap, e.v).t = "string"
                /\ Substituted(heap, e.v) # e.v
                /\ Substituted(heap, e.v).v \in LiteralTokens)
                 => get(heap', Str(e.k), Undefined)
                      = Literal(Substituted(heap, e.v).v)]_vars

\* After resolve(), a leaf defined as the text true holds the
\* string true, a leaf that refers to it holds the boolean true, and a leaf
\* whose substituted text is undefined holds undefined.
C13_Witness ==
  /\ Len(log) > 0 /\ Last.op = "resolve" /\ Last.x = Undefined
  /\ \E i, j, k \in 1..Len(flatten(heap, CONFIG)) :
       LET e == flatten(heap, CONFIG)[i]
           f == flatten(heap, CONFIG)[j]
           g == flatten(heap, CONFIG)[k]
       IN /\ e.v = Str(TextTrue)
          /\ get(heap, Str(e.k), Undefined) = Str(TextTrue)
          /\ ValueFormOnly(f.v)
          /\ Substituted(heap, f.v) = Str(TextTrue)
          /\ get(heap, Str(f.k), Undefined) = True
          /\ ValueFormOnly(g.v)
          /\ Substituted(heap, g.v) = Str(TextUndefined)
          /\ HasKey(heap[DATA], g.k)
          /\ get(heap, Str(g.k), Null) = Null

(***************************************************************************)
(* C14.  After every resolution pass the Resolved Tree is determined by    *)
(* the Definition Tree, the Dictionary and the function registry alone: it *)
(* holds no path or value left over from an earlier pass or from a         *)
(* caller's mutation of a previously returned object.                      *)
(***************************************************************************)
\* The last call ran a resolution pass: set, merge of some data, or a
\* resolve that did not fail.
LastPassed ==
  /\ Len(log) > 0
  /\ \/ Last.op = "set"
     \/ Last.op = "merge" /\ Last.d # 0
     \/ Last.op = "resolve" /\ Last.ok

\* The Resolved Tree a store holds that has the Definition Tree, the
\* Dictionary and the registry of heap h and has resolved them once, as a
\* new store does.
Rebuilt(h) ==
  ResolvedTree(resolveNoArg([h EXCEPT ![DATA] = EmptyObject], functions))

\* C14 as the specification states it: after every call that runs a
\* resolution pass, the Resolved Tree is the one built from nothing.
C14_ResolvedTreeIsRebuilt ==
  LastPassed => ResolvedTree(heap) = Rebuilt(heap)

(***************************************************************************)
(* C15.  A resolution pass never changes the Definition Tree: after        *)
(* resolve the Definition Tree equals the one before it, and after merge   *)
(* or set it differs only by the merged data or the written path, also     *)
(* after an earlier pass resolved a whole-string placeholder to an object  *)
(* or array taken from the Definition Tree.                                *)
(***************************************************************************)
\* The heap before the last call, together with the objects the caller
\* made for the call.
BeforeWithArguments ==
  [a \in 1..Len(heap) |-> IF a <= Len(Before) THEN Before[a] ELSE heap[a]]

\* The Definition Tree the last call asks for: the one before the call for
\* resolve, that one with the path written for set, with the data merged
\* for merge.
DefinitionAskedFor ==
  CASE Last.op = "set" ->
         DefinitionTree(lodashSet(BeforeWithArguments, CONFIG,
                                  ColonsToDots(Last.key.v), Last.x))
    [] Last.op = "merge" /\ Last.d # 0 ->
         DefinitionTree(lodashMerge(BeforeWithArguments, CONFIG, Last.d))
    [] OTHER -> DefinitionTree(Before)

\* C15 as the specification states it: after resolve, merge and set the
\* Definition Tree is the one the call asks for.
C15_PassLeavesDefinitionAlone ==
  (Len(log) > 0 /\ Last.op \in {"resolve", "merge", "set"})
    => DefinitionTree(heap) = DefinitionAskedFor

(***************************************************************************)
(* C16.  Each substitution round replaces every innermost placeholder of   *)
(* the string, whatever literal text surrounds them: a leaf with k         *)
(* non-nested placeholders that reference plain literals is fully resolved *)
(* for every k.                                                            *)
(***************************************************************************)
\* The positions of text s where a placeholder span opens.
Openings(s) ==
  { i \in 1..Len(s) - 1 :
      s[i] \in Sigils /\ s[i + 1] = "{" /\ IndexOfFrom(s, "}", i + 2) # 0 }

\* A string without a sigil.
IsPlainLiteral(x) == x.t = "string" /\ \A i \in 1..Len(x.v) : x.v[i] \notin Sigils

\* The span of s that opens at i is a value-form placeholder self:key, not
\* nested, without remainder tokens, that refers to a plain literal of the
\* Definition Tree.
RefersToLiteral(h, s, i) ==
  LET close == IndexOfFrom(s, "}", i + 2)
      inside == SubSeq(s, i + 2, close - 1)
  IN /\ s[i] = "$"
     /\ \A j \in 1..Len(inside) : inside[j] \notin Sigils \cup {",", "{"}
     /\ Len(inside) > Len(SelfKey) + 1
     /\ SubSeq(inside, 1, Len(SelfKey) + 1) = SelfKey \o <<":">>
     /\ IsPlainLiteral(lodashGet(h, Ref(CONFIG), Tail2(inside, Len(SelfKey) + 2),
                                 Undefined))

\* C16 as the specification states it: a leaf all of whose placeholders
\* are non-nested references to plain literals holds, resolved, a string in
\* which no placeholder is left.
C16_EveryPlaceholderResolved ==
  \A i \in 1..Len(flatten(heap, CONFIG)) :
    LET e == flatten(heap, CONFIG)[i]
    IN (/\ e.v.t = "string"
        /\ Openings(e.v.v) # {}
        /\ \A j \in Openings(e.v.v) : RefersToLiteral(heap, e.v.v, j))
         => /\ get(heap, Str(e.k), Undefined).t = "string"
            /\ Openings(get(heap, Str(e.k), Undefined).v) = {}

(***************************************************************************)
(* C17.  Resolution of any leaf terminates after at most 10 substitution   *)
(* rounds, also for circular placeholders; when the cap is hit no error is *)
(* raised and the leaf's resolved value is the string as substituted so    *)
(* far.                                                                    *)
(***************************************************************************)
\* The template a round leaves: its span replaced by the text of the value.
Replacement(h, round) ==
  SubSeq(round.s, 1, round.m.from - 1) \o StringOf(h, round.r.value)
  \o Tail2(round.s, round.m.to + 1)

\* The resolution of the leaf at position i has hit the cap: it has made
\* the last round the cap allows, every round has substituted a string, and
\* a placeholder is left.
CapHit(h, i) ==
  LET rounds == LeafRounds(h, i)
  IN /\ Len(rounds) = 10
     /\ \A k \in 1..Len(rounds) : rounds[k].r.value.t = "string"
     /\ substitutionRegex(Replacement(h, rounds[Len(rounds)])).from # 0

\* C17: no leaf is given more than 10 rounds, and a leaf whose resolution
\* hits the cap holds the string its tenth round leaves.
C17_AtMostTenRounds ==
  \A i \in 1..Len(flatten(heap, CONFIG)) :
    LET e == flatten(heap, CONFIG)[i]
        rounds == LeafRounds(heap, i)
    IN /\ Len(rounds) <= 10
       /\ CapHit(heap, i)
            => get(heap, Str(e.k), Undefined)
                 = coerce(e.v, Str(Replacement(heap, rounds[Len(rounds)])))

\* After a call on the store, a leaf that refers to itself holds its
\* definition, and the leaf 'x${self:g}' of g holds eleven x and the
\* placeholder.
C17_Witness ==
  /\ Len(log) > 0
  /\ \E i, j \in 1..Len(flatten(heap, CONFIG)) :
       LET e == flatten(heap, CONFIG)[i]
           f == flatten(heap, CONFIG)[j]
       IN /\ CapHit(heap, i) /\ CapHit(heap, j)
          /\ e.v = Str(Dollar(SelfKey, e.k))
          /\ get(heap, Str(e.k), Undefined) = e.v
          /\ f.v = Str(<<"x">> \o Dollar(SelfKey, f.k))
          /\ get(heap, Str(f.k), Undefined)
               = Str([k \in 1..11 |-> "x"] \o Dollar(SelfKey, f.k))

(***************************************************************************)
(* C18.  A leaf containing a span that does not match the placeholder      *)
(* grammar, e.g. '${name}' with no namespace:keypath separator, is treated *)
(* as literal text: its resolved value is the original string and no error *)
(* is raised.                                                              *)
(***************************************************************************)
\* The span of text s that a substitution round would replace has no ':'
\* between its braces.
NoSeparator(s) ==
  LET m == substitutionRegex(s)
  IN /\ m.from # 0
     /\ IndexOfFrom(SubSeq(s, m.from + 2, m.to - 1), ":", 1) = 0

\* C18 as the specification states it: a string leaf whose span has no
\* namespace:keypath separator holds, resolved, the string it is defined as.
C18_MalformedSpanIsLiteral ==
  \A i \in 1..Len(flatten(heap, CONFIG)) :
    LET e == flatten(heap, CONFIG)[i]
    IN (e.v.t = "string" /\ NoSeparator(e.v.v))
         => get(heap, Str(e.k), Undefined) = e.v

====
